---------------------------- MODULE Spec2Model ----------------------------
(***************************************************************************)
(* Model of reliability.py: Monte Carlo estimation of the connectivity     *)
(* reliability of a graph whose nodes fail independently at a uniform      *)
(* rate.                                                                   *)
(*                                                                         *)
(* The program is Python 2 code (xrange) written against networkx 1.x:     *)
(* graph.nodes() is a list, so nodes[0] / nodes[-1] are the first and the  *)
(* last entry of the node list of the graph that is passed in, and they    *)
(* raise IndexError on an empty list.  The node list is the iteration      *)
(* order of the graph's node dict, a CPython 2 dict keyed by the node      *)
(* numbers; that hash table is modelled (dict_insert, dict_keys), so the   *)
(* order is the order of the table's slots, not the numeric order.         *)
(*                                                                         *)
(* Real numbers: random.random() returns a value in [0,1) and rate is in   *)
(* [0,1].  A draw d stands for d/Scale (d in 0..Scale-1) and a rate r for  *)
(* r/Scale (r in 0..Scale), so rate = Scale is the rate 1.0.               *)
(*                                                                         *)
(* Floats: the values the program computes are IEEE-754 doubles.  A double *)
(* is kept as [e, m]: m its 53 mantissa bits (most significant first,      *)
(* m[1] = 1 unless the value is zero) and e the exponent of m[1]; division *)
(* and addition round to nearest, ties to even, as the hardware does.      *)
(***************************************************************************)
EXTENDS Integers, Sequences, FiniteSets

\* Largest matrix dimension (number of nodes of the source graph).
MaxNodes == 3

\* Largest n_samples.
MaxSamples == 2

\* Resolution of the random draws and of the rate.
Scale == 2

VARIABLES
    graph,          \* the source graph handed to compute_reliability
    rate,           \* failure rate, in units of 1/Scale
    n_samples,      \* number of MC samples requested
    count_path,     \* mode flag: TRUE = count simple paths
    pc,             \* "Idle", "Running", "Done" (returned) or "Raised"
    init_path_cnt,  \* baseline path count (line 114); -1 while not computed
    i,              \* number of do_one_MC calls made so far
    result,         \* list built by the comprehension (result / path_cnt_after)
    rand,           \* locals of the do_one_MC call in flight: the random.random()
                    \* values drawn, in node order
    sub_graph,      \* ... its sub_graph
    endpoints,      \* ... the <<first_node, last_node>> handed to networkx
    ret,            \* ... <<v>> once it returned v; <<>> outside a call
    error,          \* "None", "IndexError" or "ZeroDivisionError"
    reliability     \* <<x>> once the double x was returned; <<>> before

vars == <<graph, rate, n_samples, count_path, pc, init_path_cnt, i, result,
          rand, sub_graph, endpoints, ret, error, reliability>>

-----------------------------------------------------------------------------
(* Helpers                                                                 *)

RECURSIVE CountTrue(_)
CountTrue(s) ==
    IF s = <<>> THEN 0
    ELSE (IF Head(s) THEN 1 ELSE 0) + CountTrue(Tail(s))

SeqToSet(s) == {s[k] : k \in 1..Len(s)}

-----------------------------------------------------------------------------
(* Double-precision arithmetic on the non-negative values the program      *)
(* computes                                                                *)

\* Mantissa bits of a double.
MantBits == 53

\* k zero bits.  (Bit strings are built by halves, which keeps the nesting of
\* the evaluation logarithmic in their length.)
RECURSIVE Zeros(_)
Zeros(k) ==
    IF k = 0 THEN <<>>
    ELSE IF k = 1 THEN <<0>>
    ELSE Zeros(k \div 2) \o Zeros(k - k \div 2)

FloatZero == [e |-> 0, m |-> Zeros(MantBits)]

IsZero(x) == x.m[1] = 0

\* Round to nearest, ties to even: the mantissa m (MantBits bits, exponent e)
\* followed by a round bit and a sticky bit.
FloatRound(e, m, round, sticky) ==
    IF round = 1 /\ (sticky = 1 \/ m[MantBits] = 1)
    THEN IF \A k \in 1..MantBits : m[k] = 1
         THEN [e |-> e + 1, m |-> <<1>> \o Zeros(MantBits - 1)]
         ELSE LET z == CHOOSE k \in 1..MantBits :
                          m[k] = 0 /\ \A j \in (k + 1)..MantBits : m[j] = 1
              IN  [e |-> e,
                   m |-> SubSeq(m, 1, z - 1) \o <<1>> \o Zeros(MantBits - z)]
    ELSE [e |-> e, m |-> m]

\* Scaling a / b by powers of two until b <= a < 2b.
RECURSIVE Normalise(_, _, _)
Normalise(a, b, e) ==
    IF a < b THEN Normalise(2 * a, b, e - 1)
    ELSE IF a >= 2 * b THEN Normalise(a, 2 * b, e + 1)
    ELSE [a |-> a, b |-> b, e |-> e]

\* Long division: k further quotient bits of r / b (r < b), and what remains.
RECURSIVE DivBits(_, _, _)
DivBits(r, b, k) ==
    IF k = 0 THEN [bits |-> <<>>, r |-> r]
    ELSE IF k = 1
    THEN LET bit == IF 2 * r >= b THEN 1 ELSE 0
         IN  [bits |-> <<bit>>, r |-> 2 * r - bit * b]
    ELSE LET first == DivBits(r, b, k \div 2)
             rest  == DivBits(first.r, b, k - k \div 2)
         IN  [bits |-> first.bits \o rest.bits, r |-> rest.r]

\* p * 1.0 / q for integers p >= 0 and q > 0 (both exact as doubles): the
\* correctly rounded quotient.
FloatDiv(p, q) ==
    IF p = 0 THEN FloatZero
    ELSE LET n == Normalise(p, q, 0)
             d == DivBits(n.a - n.b, n.b, MantBits - 1)
             round == IF 2 * d.r >= n.b THEN 1 ELSE 0
             sticky == IF 2 * d.r - round * n.b > 0 THEN 1 ELSE 0
         IN  FloatRound(n.e, <<1>> \o d.bits, round, sticky)

\* Long division of a mantissa by n: the bits of m are fed from position pos
\* on (zeros after the last one) for k quotient bits.
InBit(m, pos) == IF pos <= Len(m) THEN m[pos] ELSE 0

RECURSIVE MantDivBits(_, _, _, _, _)
MantDivBits(m, n, r, pos, k) ==
    IF k = 0 THEN [bits |-> <<>>, r |-> r]
    ELSE IF k = 1
    THEN LET cur == 2 * r + InBit(m, pos)
             bit == IF cur >= n THEN 1 ELSE 0
         IN  [bits |-> <<bit>>, r |-> cur - bit * n]
    ELSE LET first == MantDivBits(m, n, r, pos, k \div 2)
             rest  == MantDivBits(m, n, first.r, pos + k \div 2, k - k \div 2)
         IN  [bits |-> first.bits \o rest.bits, r |-> rest.r]

\* The position at which the quotient of the mantissa by n has its first 1,
\* and the remainder before that position.
RECURSIVE MantDivLead(_, _, _, _)
MantDivLead(m, n, r, pos) ==
    IF 2 * r + InBit(m, pos) >= n THEN [pos |-> pos, r |-> r]
    ELSE MantDivLead(m, n, 2 * r + InBit(m, pos), pos + 1)

\* x / n for a double x and an integer n > 0: the correctly rounded quotient.
FloatDivInt(x, n) ==
    IF IsZero(x) THEN FloatZero
    ELSE LET l == MantDivLead(x.m, n, 0, 1)
             d == MantDivBits(x.m, n, l.r, l.pos, MantBits)
             round == IF 2 * d.r >= n THEN 1 ELSE 0
             sticky == IF 2 * d.r - round * n > 0 THEN 1 ELSE 0
         IN  FloatRound(x.e - l.pos + 1, d.bits, round, sticky)

\* Binary addition of the positions lo..hi of two bit strings, with the carry
\* that comes in from the right: the sum bits and the carry that goes out.  The
\* right half is added first; its carry goes into the left half.
JoinBits(left, rightbits) == [bits |-> left.bits \o rightbits, carry |-> left.carry]

RECURSIVE AddBits(_, _, _, _, _)
AddBits(A, B, lo, hi, carry) ==
    IF lo > hi THEN [bits |-> <<>>, carry |-> carry]
    ELSE IF lo = hi
    THEN LET t == A[lo] + B[lo] + carry
         IN  [bits |-> <<t % 2>>, carry |-> t \div 2]
    ELSE LET mid   == (lo + hi) \div 2
             right == AddBits(A, B, mid + 1, hi, carry)
         IN  IF right.carry = 1
             THEN JoinBits(AddBits(A, B, lo, mid, 1), right.bits)
             ELSE JoinBits(AddBits(A, B, lo, mid, 0), right.bits)

\* x + y for doubles x, y >= 0: the correctly rounded sum.
FloatAdd(x, y) ==
    IF IsZero(x) THEN y
    ELSE IF IsZero(y) THEN x
    ELSE LET hi == IF x.e >= y.e THEN x ELSE y
             lo == IF x.e >= y.e THEN y ELSE x
             d  == hi.e - lo.e
         IN  IF d > MantBits THEN hi
             ELSE LET A == hi.m \o Zeros(d)
                      B == Zeros(d) \o lo.m
                      sum == AddBits(A, B, 1, MantBits + d, 0)
                      S == IF sum.carry = 1 THEN <<1>> \o sum.bits ELSE sum.bits
                      round == InBit(S, MantBits + 1)
                      sticky == IF \E k \in (MantBits + 2)..Len(S) : S[k] = 1
                                THEN 1 ELSE 0
                  IN  FloatRound(hi.e + Len(S) - (MantBits + d),
                                 SubSeq(S, 1, MantBits), round, sticky)

\* sum(s) for a list of doubles: added left to right.
RECURSIVE FloatSumFrom(_, _)
FloatSumFrom(acc, s) ==
    IF s = <<>> THEN acc ELSE FloatSumFrom(FloatAdd(acc, Head(s)), Tail(s))

FloatSum(s) == FloatSumFrom(FloatZero, s)

-----------------------------------------------------------------------------
(* The CPython 2 dict that holds a graph's nodes                           *)

\* Initial table size of a dict (PyDict_MINSIZE).
PyDict_MINSIZE == 8

\* Shift of the probe perturbation (PERTURB_SHIFT).
PERTURB_SHIFT == 5

RECURSIVE Pow2(_)
Pow2(k) == IF k = 0 THEN 1 ELSE 2 * Pow2(k - 1)

\* The empty dict: a table of PyDict_MINSIZE free slots (-1 = free).
dict_new == [size |-> PyDict_MINSIZE, used |-> 0,
             table |-> [k \in 0..(PyDict_MINSIZE - 1) |-> -1]]

\* lookdict for a key not in the table: hash(key) = key; the first slot is
\* key & mask, then i = 5*i + perturb + 1 with perturb shifted after each probe.
\* Only i & mask is used, so i is kept modulo the table size.
RECURSIVE dict_probe(_, _, _, _)
dict_probe(table, size, idx, perturb) ==
    IF table[idx] = -1 THEN idx
    ELSE dict_probe(table, size, (5 * idx + perturb + 1) % size,
                    perturb \div Pow2(PERTURB_SHIFT))

\* Storing a key in a table with a free slot, without the resize check
\* (insertdict_clean); a key already present keeps its slot.
dict_store(d, key) ==
    IF \E k \in 0..(d.size - 1) : d.table[k] = key THEN d
    ELSE LET slot == dict_probe(d.table, d.size, key % d.size, key)
         IN  [d EXCEPT !.table[slot] = key, !.used = d.used + 1]

\* dictresize(minused): the smallest table of PyDict_MINSIZE * 2^k slots with
\* more than minused slots, refilled in the slot order of the old table.
RECURSIVE dict_newsize(_, _)
dict_newsize(size, minused) ==
    IF size <= minused THEN dict_newsize(2 * size, minused) ELSE size

RECURSIVE dict_refill(_, _, _)
dict_refill(new, old, k) ==
    IF k = old.size THEN new
    ELSE dict_refill(IF old.table[k] = -1 THEN new ELSE dict_store(new, old.table[k]),
                     old, k + 1)

dict_resize(d, minused) ==
    LET size == dict_newsize(PyDict_MINSIZE, minused)
    IN  dict_refill([size |-> size, used |-> 0, table |-> [k \in 0..(size - 1) |-> -1]],
                    d, 0)

\* d[key] = value (PyDict_SetItem): once the table is at least two thirds full
\* it is resized to (used > 50000 ? 2 : 4) * used.  (Nothing is ever deleted
\* from a node dict, so the count of filled slots, ma_fill, equals used.)
dict_insert(d, key) ==
    LET n == dict_store(d, key)
    IN  IF n.used > d.used /\ n.used * 3 >= n.size * 2
        THEN dict_resize(n, (IF n.used > 50000 THEN 2 ELSE 4) * n.used)
        ELSE n

RECURSIVE dict_from(_, _)
dict_from(d, keys) ==
    IF keys = <<>> THEN d ELSE dict_from(dict_insert(d, Head(keys)), Tail(keys))

\* list(d): the keys in the order of the table's slots.
RECURSIVE dict_keys_from(_, _)
dict_keys_from(d, k) ==
    IF k = d.size THEN <<>>
    ELSE (IF d.table[k] = -1 THEN <<>> ELSE <<d.table[k]>>) \o dict_keys_from(d, k + 1)

dict_keys(d) == dict_keys_from(d, 0)

-----------------------------------------------------------------------------
(* The graph (networkx 1.x Graph: a node dict and an adjacency dict).      *)
(* node is the key set of the node dict, order its iteration order, adj    *)
(* the neighbour sets.                                                     *)

EmptyGraph == [node |-> {}, order |-> <<>>, adj |-> [u \in {} |-> {}]]

\* range(n), the order in which from_numpy_matrix adds the nodes.
RECURSIVE range(_)
range(n) == IF n = 0 THEN <<>> ELSE Append(range(n - 1), n - 1)

\* The square 0/1 matrices loadmat can hand over: symmetric, zero diagonal.
Pairs(n) == {p \in (0..(n-1)) \X (0..(n-1)) : p[1] < p[2]}

AdjMat(n, E) ==
    [r \in 0..(n-1) |->
        [c \in 0..(n-1) |->
            IF <<r, c>> \in E \/ <<c, r>> \in E THEN 1 ELSE 0]]

\* nx.Graph(adj_mat): the nodes range(n) added in that order, an edge for every
\* nonzero entry.
read_graph(adj_mat) ==
    LET N == DOMAIN adj_mat
    IN  [node  |-> N,
         order |-> dict_keys(dict_from(dict_new, range(Cardinality(N)))),
         adj   |-> [u \in N |-> {v \in N : adj_mat[u][v] # 0 \/ adj_mat[v][u] # 0}]]

\* graph.nodes(): the node list, list(graph.node).
nodes(G) == G.order

\* nbunch_iter: the listed nodes that are in G, in the order listed.
RECURSIVE nbunch_iter(_, _)
nbunch_iter(G, nbunch) ==
    IF nbunch = <<>> THEN <<>>
    ELSE (IF Head(nbunch) \in G.node THEN <<Head(nbunch)>> ELSE <<>>)
            \o nbunch_iter(G, Tail(nbunch))

\* A faulty subgraph: of every edge between listed nodes only the direction
\* from the smaller to the larger node is copied.
subgraph_one_way(G, nbunch) ==
    LET bunch == nbunch_iter(G, nbunch)
        H == SeqToSet(bunch)
    IN  [node |-> H, order |-> dict_keys(dict_from(dict_new, bunch)),
         adj |-> [u \in H |-> {nbr \in G.adj[u] : nbr \in H /\ nbr > u}]]

\* graph.subgraph(nbunch): a fresh graph whose node dict receives the listed
\* nodes that are in G, in the order listed, with the edges of G between them.
subgraph(G, nbunch) ==
    LET bunch == nbunch_iter(G, nbunch)
        H == SeqToSet(bunch)
    IN  [node  |-> H,
         order |-> dict_keys(dict_from(dict_new, bunch)),
         adj   |-> [u \in H |-> {nbr \in G.adj[u] : nbr \in H}]]

\* nx.has_path(G, source, target): breadth-first closure from source; a node
\* reaches itself.
RECURSIVE Closure(_, _)
Closure(G, seen) ==
    LET next == seen \cup UNION {G.adj[u] : u \in seen}
    IN  IF next = seen THEN seen ELSE Closure(G, next)

has_path(G, source, target) == target \in Closure(G, {source})

\* nx.all_simple_paths(G, source, target) with cutoff = len(G) - 1, counted:
\* depth-first over the visited list; below the cutoff a child equal to the
\* target yields a path and an unvisited child is descended into; at the cutoff
\* a path is yielded iff the target is among the children.  The children are
\* visited in the order of the adjacency dict; the number of paths yielded is
\* the same in any order, so the model visits them in an arbitrary one.
RECURSIVE PathsFrom(_, _, _, _)
RECURSIVE PathsOver(_, _, _, _, _)
PathsFrom(G, visited, target, cutoff) ==
    LET children == G.adj[visited[Len(visited)]]
    IN  IF Len(visited) < cutoff
        THEN PathsOver(G, visited, target, cutoff, children)
        ELSE IF target \in children THEN 1 ELSE 0

PathsOver(G, visited, target, cutoff, children) ==
    IF children = {} THEN 0
    ELSE LET child == CHOOSE c \in children : TRUE
             here  == IF child = target THEN 1
                      ELSE IF child \notin SeqToSet(visited)
                           THEN PathsFrom(G, Append(visited, child), target, cutoff)
                           ELSE 0
         IN  here + PathsOver(G, visited, target, cutoff, children \ {child})

all_simple_paths_len(G, source, target) ==
    LET cutoff == Cardinality(G.node) - 1
    IN  IF cutoff < 1 THEN 0 ELSE PathsFrom(G, <<source>>, target, cutoff)

-----------------------------------------------------------------------------
(* MC simulation                                                           *)

\* if_conn(graph): nodes[0] and nodes[-1] of the graph passed in; IndexError on
\* an empty node list.
if_conn(G) ==
    LET ns == nodes(G)
    IN  IF ns = <<>>
        THEN [raised |-> "IndexError", endpoints |-> <<>>, value |-> FALSE]
        ELSE [raised |-> "None",
              endpoints |-> <<ns[1], ns[Len(ns)]>>,
              value |-> has_path(G, ns[1], ns[Len(ns)])]

\* count_simple_path(graph): same endpoint selection, number of simple paths.
count_simple_path(G) ==
    LET ns == nodes(G)
    IN  IF ns = <<>>
        THEN [raised |-> "IndexError", endpoints |-> <<>>, value |-> 0]
        ELSE [raised |-> "None",
              endpoints |-> <<ns[1], ns[Len(ns)]>>,
              value |-> all_simple_paths_len(G, ns[1], ns[Len(ns)])]

\* The loop of gen_graph_w_failure: draws[k] is the random number drawn for the
\* k-th node; the node is skipped when the number is below the rate.
RECURSIVE new_nodes(_, _, _)
new_nodes(ns, r, draws) ==
    IF ns = <<>> THEN <<>>
    ELSE IF Head(draws) < r
         THEN new_nodes(Tail(ns), r, Tail(draws))
         ELSE <<Head(ns)>> \o new_nodes(Tail(ns), r, Tail(draws))

\* A faulty gen_graph_w_failure: the failed nodes are removed from the source
\* graph itself, which is then returned.
gen_graph_in_place(G, r, draws) ==
    LET H == subgraph(G, new_nodes(nodes(G), r, draws))
    IN  [graph |-> H, sub_graph |-> H]

\* A faulty gen_graph_w_failure: the survivors are returned without the edges
\* restricted to them being kept (an empty adjacency).
gen_graph_no_edges(G, r, draws) ==
    LET H == subgraph(G, new_nodes(nodes(G), r, draws))
    IN  [graph |-> G, sub_graph |-> [H EXCEPT !.adj = [u \in H.node |-> {}]]]

\* gen_graph_w_failure(graph, rate): the source graph after the call and the
\* generated sub-graph.
gen_graph_w_failure(G, r, draws) ==
    [graph |-> G, sub_graph |-> subgraph(G, new_nodes(nodes(G), r, draws))]

\* do_one_MC(graph, rate, count_path)
do_one_MC(G, r, cp, draws) ==
    LET g == gen_graph_w_failure(G, r, draws)
        o == IF cp THEN count_simple_path(g.sub_graph) ELSE if_conn(g.sub_graph)
    IN  [graph |-> g.graph, sub_graph |-> g.sub_graph, raised |-> o.raised,
         endpoints |-> o.endpoints, value |-> o.value]

Draws(G) == [1..Cardinality(G.node) -> 0..(Scale - 1)]

-----------------------------------------------------------------------------
(* compute_reliability as a state machine                                  *)

Init ==
    /\ \E n \in 0..MaxNodes : \E E \in SUBSET Pairs(n) :
          graph = read_graph(AdjMat(n, E))
    /\ rate \in 0..Scale
    /\ n_samples \in 0..MaxSamples
    /\ count_path \in BOOLEAN
    /\ pc = "Idle"
    /\ init_path_cnt = -1
    /\ i = 0
    /\ result = <<>>
    /\ rand = <<>>
    /\ sub_graph = EmptyGraph
    /\ endpoints = <<>>
    /\ ret = <<>>
    /\ error = "None"
    /\ reliability = <<>>

\* Entry of compute_reliability; in path-count mode line 114 takes the baseline.
Start ==
    /\ pc = "Idle"
    /\ \E c \in {count_simple_path(graph)} :
          IF count_path
          THEN IF c.raised # "None"
               THEN /\ pc' = "Raised"
                    /\ error' = c.raised
                    /\ UNCHANGED init_path_cnt
               ELSE /\ pc' = "Running"
                    /\ init_path_cnt' = c.value
                    /\ UNCHANGED error
          ELSE /\ pc' = "Running"
               /\ UNCHANGED <<init_path_cnt, error>>
    /\ UNCHANGED <<graph, rate, n_samples, count_path, i, result, rand,
                   sub_graph, endpoints, ret, reliability>>

\* One call do_one_MC(graph, rate, count_path) made by the list comprehension
\* (lines 116 / 122), with the random numbers it draws.
Trial ==
    /\ pc = "Running"
    /\ ret = <<>>
    /\ i < n_samples
    /\ \E draws \in Draws(graph) :
          \E r \in {do_one_MC(graph, rate, count_path, draws)} :
              /\ graph' = r.graph
              /\ rand' = draws
              /\ sub_graph' = r.sub_graph
              /\ endpoints' = r.endpoints
              /\ i' = i + 1
              /\ IF r.raised # "None"
                 THEN /\ pc' = "Raised"
                      /\ error' = r.raised
                      /\ UNCHANGED ret
                 ELSE /\ ret' = <<r.value>>
                      /\ UNCHANGED <<pc, error>>
    /\ UNCHANGED <<rate, n_samples, count_path, init_path_cnt, result, reliability>>

\* The comprehension stores the value returned; the locals of the call are gone.
Collect ==
    /\ pc = "Running"
    /\ ret # <<>>
    /\ result' = Append(result, ret[1])
    /\ ret' = <<>>
    /\ rand' = <<>>
    /\ sub_graph' = EmptyGraph
    /\ endpoints' = <<>>
    /\ UNCHANGED <<graph, rate, n_samples, count_path, pc, init_path_cnt, i,
                   error, reliability>>

\* Line 118: the list of ratios i * 1.0 / init_path_cnt.
ratios(path_cnt_after, init) ==
    [k \in 1..Len(path_cnt_after) |-> FloatDiv(path_cnt_after[k], init)]

\* Lines 118-119 / 123: the aggregation and the return.  Dividing by
\* init_path_cnt = 0 (line 118) or by the length of an empty list raises.
Finish ==
    /\ pc = "Running"
    /\ ret = <<>>
    /\ i = n_samples
    /\ IF count_path
       THEN IF (init_path_cnt = 0 /\ Len(result) > 0) \/ Len(result) = 0
            THEN /\ pc' = "Raised"
                 /\ error' = "ZeroDivisionError"
                 /\ UNCHANGED reliability
            ELSE /\ pc' = "Done"
                 /\ reliability' = <<FloatDivInt(FloatSum(ratios(result, init_path_cnt)),
                                                Len(result))>>
                 /\ UNCHANGED error
       ELSE IF Len(result) = 0
            THEN /\ pc' = "Raised"
                 /\ error' = "ZeroDivisionError"
                 /\ UNCHANGED reliability
            ELSE /\ pc' = "Done"
                 /\ reliability' = <<FloatDiv(CountTrue(result), Len(result))>>
                 /\ UNCHANGED error
    /\ UNCHANGED <<graph, rate, n_samples, count_path, init_path_cnt, i, result,
                   rand, sub_graph, endpoints, ret>>

Next == Start \/ Trial \/ Collect \/ Finish

Spec == Init /\ [][Next]_vars

-----------------------------------------------------------------------------
(* Properties                                                              *)

\* First and last node of the source graph's node list.
SourceFirst == nodes(graph)[1]
SourceLast  == nodes(graph)[Len(nodes(graph))]

\* A do_one_MC call has drawn its random numbers (it returned or raised, and its
\* value is not yet stored).
TrialActed == ret # <<>> \/ (error = "IndexError" /\ i >= 1)

\* The doubles 1.0 and the test x <= 1.0.
FloatOne == [e |-> 0, m |-> <<1>> \o Zeros(MantBits - 1)]
FloatLeOne(x) == IsZero(x) \/ x.e < 0 \/ x = FloatOne

\* The nodes whose draw in the call in flight is at least the rate.
Survivors == {nodes(graph)[k] : k \in {j \in 1..Len(rand) : rand[j] >= rate}}

Finished == pc \in {"Done", "Raised"}

\* The source's first and last node are joined by a walk in the source graph.
ConnectedInSource ==
    \E k \in 1..Cardinality(graph.node) :
        \E p \in [1..k -> graph.node] :
            /\ p[1] = SourceFirst
            /\ p[k] = SourceLast
            /\ \A j \in 1..(k - 1) : p[j + 1] \in graph.adj[p[j]]

\* C1: in every trial the endpoints handed to the connectivity oracle are the
\* first and the last node of the source graph, whatever nodes survived.
C1_EndpointsOfSource ==
    endpoints # <<>> => endpoints = <<SourceFirst, SourceLast>>

\* C2: a trial whose survivor set lacks the source's first or last node is
\* scored False (reachability) or 0 (path count), and nothing is raised.
C2_MissingEndpointScoredZero ==
    (/\ graph.node # {}
     /\ TrialActed
     /\ (SourceFirst \notin Survivors \/ SourceLast \notin Survivors))
        => /\ error = "None"
           /\ ret = <<IF count_path THEN 0 ELSE FALSE>>

\* C3: with rate = 1 the reachability estimate is exactly 0.0 for any N >= 1.
C3_RateOneGivesZero ==
    (rate = Scale /\ ~count_path /\ n_samples >= 1 /\ Finished)
        => /\ pc = "Done"
           /\ reliability = <<FloatZero>>

\* C4: for all graphs, with rate = 0 every trial's sub-graph is the source
\* graph, and the reachability estimate is exactly 1.0 if the source's first
\* and last node are connected and exactly 0.0 otherwise, for any N >= 1.
C4_RateZeroExactAllGraphs ==
    (rate = 0 /\ ~count_path /\ n_samples >= 1)
        => /\ TrialActed => sub_graph = graph
           /\ Finished =>
                /\ pc = "Done"
                /\ reliability = IF ConnectedInSource
                                 THEN <<FloatOne>> ELSE <<FloatZero>>

\* C5: in path-count mode an error is raised iff the baseline path count is
\* zero, and it is raised before any trial is run: with a zero baseline no
\* trial runs and nothing is returned, and an error means a zero baseline and
\* no trial run.
C5_DegenerateRaisedFirst ==
    count_path
        => /\ init_path_cnt = 0 => (i = 0 /\ pc # "Done")
           /\ pc = "Raised" => (init_path_cnt = 0 /\ i = 0)

\* C6: for a fixed vector of draws and rates r1 <= r2, a trial scored
\* disconnected at r1 is not scored connected at r2.
C6_MonotoneInRate ==
    (~count_path /\ ret = <<FALSE>>)
        => \A r2 \in rate..Scale :
              LET o == do_one_MC(graph, r2, FALSE, rand)
              IN  ~(o.raised = "None" /\ o.value)

\* C7: in path-count mode with rate = 0 and a nonzero baseline, every trial's
\* ratio is exactly 1.0 (the trial's count is the baseline) and the estimate
\* is exactly 1.0 for every N >= 1.
C7_PathCountRateZero ==
    (count_path /\ rate = 0 /\ init_path_cnt > 0 /\ n_samples >= 1)
        => /\ ret # <<>> => FloatDiv(ret[1], init_path_cnt) = FloatOne
           /\ \A k \in 1..Len(result) :
                 ratios(result, init_path_cnt)[k] = FloatOne
           /\ Finished =>
                /\ pc = "Done"
                /\ reliability = <<FloatOne>>

C7_Witness ==
    /\ pc = "Done" /\ count_path /\ rate = 0
    /\ n_samples = MaxSamples
    /\ init_path_cnt >= 2
    /\ reliability = <<FloatOne>>

\* C8: in reachability mode with N >= 1 the estimator ends in Done after
\* exactly N trials and returns C / N, C the number of trials scored
\* connected, so the result lies in [0, 1].
C8_ReturnsFraction ==
    (~count_path /\ n_samples >= 1 /\ Finished)
        => /\ pc = "Done"
           /\ i = n_samples
           /\ Len(result) = n_samples
           /\ reliability = <<FloatDiv(CountTrue(result), n_samples)>>
           /\ FloatLeOne(reliability[1])

\* C9: gen_graph_w_failure draws one value per node of the source graph; a
\* node is in the result iff its draw is >= rate, and an edge is in the result
\* iff it is an edge of the source graph with both endpoints surviving.
C9_InducedOnSurvivors ==
    TrialActed
        => /\ Len(rand) = Cardinality(graph.node)
           /\ sub_graph.node = Survivors
           /\ \A u, v \in graph.node :
                 (u \in sub_graph.node /\ v \in sub_graph.adj[u])
                    <=> (v \in graph.adj[u] /\ u \in Survivors /\ v \in Survivors)

C9_Witness ==
    /\ TrialActed
    /\ Cardinality(sub_graph.node) = 2
    /\ Cardinality(graph.node) = 3
    /\ \E u \in sub_graph.node : sub_graph.adj[u] # {}
    /\ \E u \in sub_graph.node : sub_graph.adj[u] # graph.adj[u]

\* C10: compute_reliability never changes the source graph, and the value a
\* trial returns is the value the first trial returns on the same draws: it
\* depends on the source graph, the rate and the trial's own draws only.
C10_SourceUntouched ==
    [][ /\ graph' = graph
        /\ (ret = <<>> /\ ret' # <<>>)
              => ret' = <<do_one_MC(graph, rate, count_path, rand').value>>
      ]_vars

C10_Witness ==
    /\ i = 2
    /\ ret # <<>>
    /\ Len(result) = 1
    /\ sub_graph # graph
    /\ rate > 0

=============================================================================
